---- MODULE Spec2Model ----
(***************************************************************************)
(* Streaming relay of the n8n chat proxy.                                  *)
(*                                                                         *)
(*   SpecRelay : forward_to_n8n_stream (main_production.py, main_simple.py)*)
(*               and stream_from_n8n (main_stateless.py)                   *)
(*   SpecRetry : OptimizedN8NClient.send_message_with_retry consumed by    *)
(*               enhanced_sse_stream (services/sse_manager.py,             *)
(*               api/v1/endpoints/chat.py)                                 *)
(*   SpecCB    : CircuitBreakerMiddleware (middleware/error_handling.py)   *)
(*   SpecChat  : send_message of the chat endpoint with the connection     *)
(*               registry SSEConnectionManager, its heartbeat and cleanup  *)
(*               tasks; SpecChatFair adds the scheduling of the event loop *)
(*   SpecDecode: the byte-buffer and line-splitting loops of the relays    *)
(***************************************************************************)
EXTENDS Integers, Sequences, FiniteSets, TLC

VARIABLES
    \* ---- forward_to_n8n_stream / stream_from_n8n ----
    mode,        \* which relay runs: "production", "simple", "simple_test", "stateless"
    status,      \* response.status_code of the upstream
    body,        \* newline-terminated upstream lines not yet read
    tail,        \* <<line>> when the stream ends with an unterminated line, else <<>>
    fpc,         \* position of the generator
    err,         \* the exception being handled: [kind, msg]
    out,         \* frames yielded to the client, in order
    tracked,     \* app.state.active_connections (main_production.py)
    test_left,   \* characters of test_text still to send (main_simple.py TEST mode)
    \* ---- send_message_with_retry / enhanced_sse_stream ----
    attempt,     \* loop variable of `for attempt in range(self.retry_attempts)`
    rpc,         \* position of send_message_with_retry / enhanced_sse_stream
    got_content, \* messages yielded by the current attempt
    yielded,     \* every response_data yielded by send_message_with_retry
    sse_out,     \* frames yielded by enhanced_sse_stream
    attempts,    \* number of _stream_request calls started
    failures,    \* number of attempts that raised
    content_fail,\* attempts started when an attempt failed after content (0: none)
    reads,       \* SSE blocks read from the upstream in the current attempt
    last_exception,
    active_connections, \* sse_manager.active_connections (key set)
    connection_queues,  \* sse_manager.connection_queues: id -> queued messages
    \* ---- CircuitBreakerMiddleware ----
    failure_counts,
    last_failure_times,
    circuit_open,
    now,         \* time.time()
    req,         \* request slot -> state of the request in dispatch
    trial,       \* slot of the request whose _is_circuit_open reset the circuit (0: none)
    trial_result,\* "none", "pending", "ok", "failed"
    consec,      \* failures recorded since the last recorded success or reset
    last_op,     \* the last bookkeeping call and the counter before it
    \* ---- send_message (chat.py) with SSEConnectionManager ----
    handler,     \* request -> position of its send_message handler
    http,        \* request -> status code of the response (0: none yet)
    cid,         \* request -> connection_id returned by create_connection ("": none)
    upstream_calls, \* request -> calls made to the upstream
    inactive,    \* connection id -> time.time() - connection.last_activity
    hb_wait,     \* time left of the heartbeat loop's sleep
    cl_wait,     \* time left of the cleanup loop's sleep
    epoch,       \* int(time.time())
    \* ---- byte-buffer and line-splitting loops ----
    dmode,       \* which loop runs: "production", "simple", "sse_manager"
    input,       \* the bytes of the upstream body
    chunks,      \* the chunks in which the body arrives
    nread,       \* number of chunks read so far
    byte_buffer, \* bytes carried to the next chunk
    buffer,      \* decoded text not yet split into lines
    decoded,     \* concatenation of every decoded fragment (chunk_str)
    handed,      \* the lines handed to the interpreter, in order
    dpc,         \* position of the loop
    \* ---- shutdown_event (main_production.py) ----
    sd_pc,       \* position of shutdown_event: "serving", "draining", "done"
    sd_i,        \* sleeps started by the loop `for i in range(30)`
    \* ---- escaping on the wire ----
    content,     \* the content string the relay is about to send
    wire,        \* the payload of the frame the relay sent
    shown,       \* the string the client has after unescaping
    epc,         \* "idle", "content", "sent", "received"
    \* ---- RequestTimeoutMiddleware around the chat relay ----
    tm_pc,       \* "idle", "handler", "attempt", "backoff", "ended", "timed_out"
    tm_elapsed,  \* seconds since dispatch called wait_for
    tm_attempt,  \* loop variable of send_message_with_retry
    tm_sleep,    \* seconds left of the backoff sleep
    \* ---- RateLimitMiddleware.dispatch ----
    rl_kind,     \* request -> "exempt", "options" or "api"
    rl_pc,       \* request -> position of dispatch
    rl_calls,    \* request -> number of call_next invocations
    rl_failures, \* request -> failures the inner circuit breaker recorded
    \* ---- RateLimiter.check_rate_limit (one key) ----
    rt_now,      \* int(time.time())
    rt_zset,     \* the sorted set of the key: records [member, score]
    rt_allowed,  \* clock seconds of the calls that returned allowed = True
    rt_result    \* "none", or the outcome of the last call

relayVars == <<mode, status, body, tail, fpc, err, out, tracked, test_left>>
retryVars == <<attempt, rpc, got_content, yielded, sse_out, attempts, failures,
               content_fail, reads, last_exception, active_connections,
               connection_queues>>
cbVars    == <<failure_counts, last_failure_times, circuit_open, now, req, trial,
               trial_result, consec, last_op>>
chatVars  == <<handler, http, cid, upstream_calls, inactive, hb_wait, cl_wait, epoch>>
decVars   == <<dmode, input, chunks, nread, byte_buffer, buffer, decoded, handed, dpc>>
shutVars  == <<sd_pc, sd_i>>
escVars   == <<content, wire, shown, epc>>
tmVars    == <<tm_pc, tm_elapsed, tm_attempt, tm_sleep>>
rlVars    == <<rl_kind, rl_pc, rl_calls, rl_failures>>
rtVars    == <<rt_now, rt_zset, rt_allowed, rt_result>>
vars      == <<relayVars, retryVars, cbVars, chatVars, decVars, shutVars, escVars,
               tmVars, rlVars, rtVars>>

(***************************************************************************)
(* Text.  A text is a sequence of pieces; a newline and a carriage return  *)
(* are always pieces of their own, so that replace('\n', '\\n') can be     *)
(* computed.  Flat gives the string a text stands for.                     *)
(***************************************************************************)
RECURSIVE Flat(_)
Flat(t) == IF t = <<>> THEN "" ELSE Head(t) \o Flat(Tail(t))

\* str.replace('\n', '\\n').replace('\r', '\\r')
RECURSIVE Escape(_)
Escape(t) ==
    IF t = <<>> THEN <<>>
    ELSE LET h == Head(t)
         IN  <<(IF h = "\n" THEN "\\n" ELSE IF h = "\r" THEN "\\r" ELSE h)>>
                 \o Escape(Tail(t))

\* f"data: {payload}\n\n"
Frame(payload) == "data: " \o payload \o "\n\n"

DoneFrame == Frame("[DONE]")

(***************************************************************************)
(* Upstream lines.  json.loads is modelled by its result, carried with     *)
(* the line: j is "obj" (a JSON object), "nonobj" (valid JSON that is no   *)
(* object) or "invalid" (JSONDecodeError); type and content are the        *)
(* object's fields (ck: "str", "null", "num" or "absent").  A leading      *)
(* brace of a text is a piece of its own.                                  *)
(***************************************************************************)
Line(text, j, type, ck, cv) ==
    [text |-> text, j |-> j, type |-> type, ck |-> ck, cv |-> cv]

L_begin     == Line(<<"{", "\"type\":\"begin\"}">>, "obj", "begin", "absent", <<>>)
L_item      == Line(<<"{", "\"type\":\"item\",\"content\":\"Hi\"}">>, "obj", "item", "str", <<"Hi">>)
L_itemEmpty == Line(<<"{", "\"type\":\"item\",\"content\":\"\"}">>, "obj", "item", "str", <<>>)
L_itemNull  == Line(<<"{", "\"type\":\"item\",\"content\":null}">>, "obj", "item", "null", <<>>)
L_itemNum   == Line(<<"{", "\"type\":\"item\",\"content\":5}">>, "obj", "item", "num", <<"5">>)
L_itemDone  == Line(<<"{", "\"type\":\"item\",\"content\":\"[DONE]\"}">>, "obj", "item", "str", <<"[DONE]">>)
L_end       == Line(<<"{", "\"type\":\"end\"}">>, "obj", "end", "absent", <<>>)
L_error     == Line(<<"{", "\"type\":\"error\",\"content\":\"boom\"}">>, "obj", "error", "str", <<"boom">>)
L_number    == Line(<<"5">>, "nonobj", "", "absent", <<>>)
L_plain     == Line(<<"hello">>, "invalid", "", "absent", <<>>)
L_plainDone == Line(<<"[DONE]">>, "invalid", "", "absent", <<>>)
L_badJson   == Line(<<"{", "bad">>, "invalid", "", "absent", <<>>)
L_blank     == Line(<<>>, "invalid", "", "absent", <<>>)

Lines == {L_begin, L_item, L_itemEmpty, L_itemNull, L_itemNum, L_itemDone, L_end,
          L_error, L_number, L_plain, L_plainDone, L_badJson, L_blank}

\* line.startswith('{')
StartsWithBrace(t) == t # <<>> /\ Head(t) = "{"

\* Python truth value of json_obj.get("content", "")
Truthy(l) == \/ l.ck = "str" /\ Flat(l.cv) # ""
             \/ l.ck = "num"

\* json.dumps of a str: quotes, with newline and carriage return escaped
DumpsStr(t) == "\"" \o Flat(Escape(t)) \o "\""

\* json.dumps(json_obj) of an upstream object
Dumps(l) ==
    "{\"type\": \"" \o l.type \o "\""
      \o (CASE l.ck = "absent" -> ""
            [] l.ck = "str"    -> ", \"content\": " \o DumpsStr(l.cv)
            [] l.ck = "null"   -> ", \"content\": null"
            [] l.ck = "num"    -> ", \"content\": " \o Flat(l.cv))
      \o "}"

\* json.dumps({"type": "item", "content": text})
DumpsPlain(t) == "{\"type\": \"item\", \"content\": " \o DumpsStr(t) \o "}"

\* f"{json_obj.get('content', 'Unknown error')}"
ErrorContent(l) ==
    CASE l.ck = "absent" -> "Unknown error"
      [] l.ck = "null"   -> "None"
      [] OTHER           -> Flat(l.cv)

\* What handling one line does: the frames it yields, and the exception it
\* raises (<<>>: none).
Yields(frames)       == [frames |-> frames, raise |-> <<>>]
Raises(msg)          == [frames |-> <<>>, raise |-> <<msg>>]
NoGet                == "'int' object has no attribute 'get'"
NoReplace            == "'int' object has no attribute 'replace'"

\* main_production.py: one complete line of the `while "\n" in buffer` loop
ProductionLine(l) ==
    IF l.text = <<>> THEN Yields(<<>>)
    ELSE CASE l.j = "obj" ->
                  IF l.type \in {"begin", "end", "error"} THEN Yields(<<Frame(Dumps(l))>>)
                  ELSE IF l.type = "item" /\ Truthy(l) THEN Yields(<<Frame(Dumps(l))>>)
                  ELSE Yields(<<>>)
           [] l.j = "nonobj" -> Raises(NoGet)
           [] l.j = "invalid" ->
                  IF ~StartsWithBrace(l.text) THEN Yields(<<Frame(DumpsPlain(l.text))>>)
                  ELSE Yields(<<>>)

\* main_production.py: the remaining buffer after the stream ended
ProductionTail(l) ==
    IF l.text = <<>> THEN Yields(<<>>)
    ELSE CASE l.j = "obj" ->
                  IF l.type = "item" /\ Truthy(l) THEN Yields(<<Frame(Dumps(l))>>)
                  ELSE Yields(<<>>)
           [] l.j = "nonobj" -> Raises(NoGet)
           [] l.j = "invalid" -> Yields(<<Frame(DumpsPlain(l.text))>>)

\* main_simple.py: one complete line of the `while '\n' in buffer` loop
SimpleLine(l) ==
    IF l.text = <<>> THEN Yields(<<>>)
    ELSE CASE l.j = "obj" ->
                  IF l.type = "item"
                  THEN CASE l.ck = "null" -> Yields(<<>>)
                         [] l.ck = "num"  -> Raises(NoReplace)
                         [] OTHER         -> Yields(<<Frame(Flat(Escape(l.cv)))>>)
                  ELSE IF l.type = "error"
                  THEN Yields(<<Frame("Error: " \o ErrorContent(l))>>)
                  ELSE Yields(<<>>)
           [] l.j = "nonobj" -> Raises(NoGet)
           [] l.j = "invalid" ->
                  IF ~StartsWithBrace(l.text) THEN Yields(<<Frame(Flat(Escape(l.text)))>>)
                  ELSE Yields(<<>>)

\* main_simple.py: the remaining buffer after the stream ended
SimpleTail(l) ==
    IF l.text = <<>> THEN Yields(<<>>)
    ELSE CASE l.j = "obj" ->
                  IF l.type = "item" /\ Truthy(l)
                  THEN IF l.ck = "num" THEN Raises(NoReplace)
                       ELSE Yields(<<Frame(Flat(Escape(l.cv)))>>)
                  ELSE Yields(<<>>)
           [] l.j = "nonobj" -> Raises(NoGet)
           [] l.j = "invalid" -> Yields(<<Frame(Flat(Escape(l.text)))>>)

\* main_stateless.py: one chunk of response.aiter_text()
StatelessChunk(l) ==
    IF l.text = <<>> THEN Yields(<<>>) ELSE Yields(<<Frame(Flat(l.text))>>)

HandleLine(m, l) ==
    CASE m = "production" -> ProductionLine(l)
      [] m = "simple"     -> SimpleLine(l)
      [] m = "stateless"  -> StatelessChunk(l)

HandleTail(m, l) ==
    CASE m = "production" -> ProductionTail(l)
      [] m = "simple"     -> SimpleTail(l)
      [] m = "stateless"  -> StatelessChunk(l)

(***************************************************************************)
(* forward_to_n8n_stream (main_production.py, main_simple.py) and          *)
(* stream_from_n8n (main_stateless.py): one action per resumption of the   *)
(* generator, up to its next network read or yield.                        *)
(***************************************************************************)
MaxBody == 2

Modes == {"production", "simple", "simple_test", "stateless"}

RECURSIVE SeqsUpTo(_, _)
SeqsUpTo(S, n) ==
    IF n = 0 THEN {<<>>}
    ELSE LET shorter == SeqsUpTo(S, n - 1)
         IN  shorter \cup {Append(q, x) : q \in shorter, x \in S}

\* the user's message (two lines), echoed by the non-200 fallback
message == <<"hi", "\n", "there">>

\* test_text of the TEST mode of main_simple.py, shortened to three characters
test_text == <<"a", "\n", "b">>

\* f"{session_data.get('id', 'unknown')}_{int(time.time())}"
connection_id == "s1_0"

\* the exceptions the upstream I/O raises
IOErrors == {[kind |-> "timeout", msg |-> "timed out"],
             [kind |-> "other", msg |-> "connection reset"]}

\* f"Echo (n8n unavailable, status {response.status_code}): {message}"
fallback_msg == <<"Echo (n8n unavailable, status 500): ">> \o message

\* the frame yielded for a non-200 upstream status
FallbackFrame(m) ==
    CASE m = "production" -> Frame(DumpsPlain(fallback_msg))
      [] m = "simple"     -> Frame(Flat(fallback_msg))
      [] m = "stateless"  -> Frame("Error: Failed to connect to AI service (status: 500)")

\* the frame yielded by the exception handlers (the Cyrillic prefix of
\* main_simple.py is written in Latin letters)
ErrorFrame(m, e) ==
    CASE m = "production" -> Frame("Error: " \o e.msg)
      [] m = "simple"     -> Frame("Izvinite, problema s podklyucheniem: " \o e.msg)
      [] m = "stateless"  -> IF e.kind = "timeout" THEN Frame("Error: Request timeout")
                             ELSE Frame("Error: " \o e.msg)

NoErr == [kind |-> "none", msg |-> ""]

\* the registry entry is added before the try block (main_production.py only)
Track(m, t) == IF m = "production" THEN t \cup {connection_id} ELSE t

\* a finally block that leaves the registry entry in place
Untrack_kept(t) == t

\* finally: app.state.active_connections.discard(connection_id)
Untrack(t) == t \ {connection_id}

\* first resumption: TEST mode, or connect and read the status
RelayOpen ==
    /\ fpc = "start"
    /\ IF mode = "simple_test"
       THEN /\ fpc' = "test"
            /\ UNCHANGED <<out, tracked>>
       ELSE /\ tracked' = Track(mode, tracked)
            /\ IF status = 200
               THEN fpc' = "reading" /\ out' = out
               ELSE fpc' = "finish" /\ out' = Append(out, FallbackFrame(mode))
    /\ UNCHANGED <<mode, status, body, tail, err, test_left, retryVars, cbVars,
                   chatVars, decVars, shutVars, escVars, tmVars, rlVars, rtVars>>

\* jwt.decode, client.stream or a network read raises
RelayRaise ==
    /\ fpc \in {"start", "reading"}
    /\ mode # "simple_test"
    /\ \E e \in IOErrors : err' = e
    /\ fpc' = "except"
    /\ tracked' = IF fpc = "start" THEN Track(mode, tracked) ELSE tracked
    /\ UNCHANGED <<mode, status, body, tail, out, test_left, retryVars, cbVars,
                   chatVars, decVars, shutVars, escVars, tmVars, rlVars, rtVars>>

\* one complete upstream line (one chunk for stream_from_n8n)
RelayLine ==
    /\ fpc = "reading"
    /\ body # <<>>
    /\ LET r == HandleLine(mode, Head(body))
       IN  /\ out' = out \o r.frames
           /\ IF r.raise = <<>>
              THEN fpc' = fpc /\ err' = err
              ELSE fpc' = "except" /\ err' = [kind |-> "other", msg |-> r.raise[1]]
    /\ body' = Tail(body)
    /\ UNCHANGED <<mode, status, tail, tracked, test_left, retryVars, cbVars,
                   chatVars, decVars, shutVars, escVars, tmVars, rlVars, rtVars>>

\* the upstream stream ends: the remaining buffer is handled
RelayEnd ==
    /\ fpc = "reading"
    /\ body = <<>>
    /\ LET r == IF tail = <<>> THEN Yields(<<>>) ELSE HandleTail(mode, tail[1])
       IN  /\ out' = out \o r.frames
           /\ IF r.raise = <<>>
              THEN fpc' = "finish" /\ err' = err
              ELSE fpc' = "except" /\ err' = [kind |-> "other", msg |-> r.raise[1]]
    /\ tail' = <<>>
    /\ UNCHANGED <<mode, status, body, tracked, test_left, retryVars, cbVars,
                   chatVars, decVars, shutVars, escVars, tmVars, rlVars, rtVars>>

\* except ...: the error frame
RelayError ==
    /\ fpc = "except"
    /\ out' = Append(out, ErrorFrame(mode, err))
    /\ fpc' = "except_done"
    /\ UNCHANGED <<mode, status, body, tail, err, tracked, test_left, retryVars, cbVars,
                   chatVars, decVars, shutVars, escVars, tmVars, rlVars, rtVars>>

\* yield "data: [DONE]\n\n", then the finally block
RelayDone ==
    /\ fpc \in {"finish", "except_done"}
    /\ out' = Append(out, DoneFrame)
    /\ fpc' = "done"
    /\ tracked' = Untrack(tracked)
    /\ UNCHANGED <<mode, status, body, tail, err, test_left, retryVars, cbVars,
                   chatVars, decVars, shutVars, escVars, tmVars, rlVars, rtVars>>

\* TEST mode: one character per frame
RelayTestChar ==
    /\ fpc = "test"
    /\ test_left # <<>>
    /\ out' = Append(out, Frame(Flat(Escape(<<Head(test_left)>>))))
    /\ test_left' = Tail(test_left)
    /\ UNCHANGED <<mode, status, body, tail, fpc, err, tracked, retryVars, cbVars,
                   chatVars, decVars, shutVars, escVars, tmVars, rlVars, rtVars>>

RelayTestDone ==
    /\ fpc = "test"
    /\ test_left = <<>>
    /\ out' = Append(out, DoneFrame)
    /\ fpc' = "done"
    /\ UNCHANGED <<mode, status, body, tail, err, tracked, test_left, retryVars, cbVars,
                   chatVars, decVars, shutVars, escVars, tmVars, rlVars, rtVars>>

\* the client disconnects: the generator is closed where it is suspended
\* (GeneratorExit is no Exception), only the finally block runs
RelayDisconnect ==
    /\ fpc \notin {"done", "cancelled"}
    /\ fpc' = "cancelled"
    /\ tracked' = Untrack(tracked)
    /\ UNCHANGED <<mode, status, body, tail, err, out, test_left, retryVars, cbVars,
                   chatVars, decVars, shutVars, escVars, tmVars, rlVars, rtVars>>

RetryIdle ==
    /\ attempt = 0 /\ rpc = "idle" /\ got_content = <<>> /\ yielded = <<>>
    /\ sse_out = <<>> /\ attempts = 0 /\ failures = 0 /\ content_fail = 0
    /\ reads = 0 /\ last_exception = "None"
    /\ active_connections = {} /\ connection_queues = <<>>

CBIdle ==
    /\ failure_counts = <<>> /\ last_failure_times = <<>> /\ circuit_open = <<>>
    /\ now = 0 /\ req = <<>> /\ trial = 0 /\ trial_result = "none" /\ consec = 0
    /\ last_op = [op |-> "none", before |-> 0]

ChatIdle ==
    /\ handler = <<>> /\ http = <<>> /\ cid = <<>> /\ upstream_calls = <<>>
    /\ inactive = <<>> /\ hb_wait = 0 /\ cl_wait = 0 /\ epoch = 0

ShutIdle == sd_pc = "idle" /\ sd_i = 0

EscIdle == content = "" /\ wire = "" /\ shown = "" /\ epc = "idle"

TmIdle == tm_pc = "idle" /\ tm_elapsed = 0 /\ tm_attempt = 0 /\ tm_sleep = 0

RlIdle == rl_kind = <<>> /\ rl_pc = <<>> /\ rl_calls = <<>> /\ rl_failures = <<>>

RtIdle == rt_now = 0 /\ rt_zset = {} /\ rt_allowed = <<>> /\ rt_result = "none"

DecIdle ==
    /\ dmode = "idle" /\ input = <<>> /\ chunks = <<>> /\ nread = 0
    /\ byte_buffer = <<>>
    /\ buffer = <<>> /\ decoded = <<>> /\ handed = <<>> /\ dpc = "idle"

RelayIdle ==
    /\ mode = "idle" /\ status = 0 /\ body = <<>> /\ tail = <<>> /\ fpc = "idle"
    /\ err = NoErr /\ out = <<>> /\ tracked = {} /\ test_left = <<>>

InitRelay ==
    /\ RtIdle
    /\ RlIdle
    /\ TmIdle
    /\ EscIdle
    /\ ShutIdle
    /\ mode \in Modes
    /\ status \in {200, 500}
    /\ body \in SeqsUpTo(Lines, MaxBody)
    /\ tail \in {<<>>} \cup {<<l>> : l \in Lines}
    /\ (status # 200 \/ mode = "simple_test") => body = <<>> /\ tail = <<>>
    /\ mode = "simple_test" => status = 200
    /\ fpc = "start"
    /\ err = NoErr
    /\ out = <<>>
    /\ tracked = {}
    /\ test_left = IF mode = "simple_test" THEN test_text ELSE <<>>
    /\ RetryIdle
    /\ CBIdle
    /\ ChatIdle
    /\ DecIdle

NextRelay ==
    \/ RelayOpen
    \/ RelayRaise
    \/ RelayLine
    \/ RelayEnd
    \/ RelayError
    \/ RelayDone
    \/ RelayTestChar
    \/ RelayTestDone
    \/ RelayDisconnect

SpecRelay == InitRelay /\ [][NextRelay]_vars

\* helper: number of occurrences of a frame in a sequence of frames
RECURSIVE Count(_, _)
Count(q, f) == IF q = <<>> THEN 0
               ELSE (IF Head(q) = f THEN 1 ELSE 0) + Count(Tail(q), f)

\* C1: every relay that runs to its end while the client stays connected has
\* emitted exactly one `data: [DONE]` frame, and that frame is the last one.
C1_ExactlyOneDoneLast ==
    fpc = "done" =>
        /\ out # <<>>
        /\ out[Len(out)] = DoneFrame
        /\ Count(out, DoneFrame) = 1

(***************************************************************************)
(* OptimizedN8NClient.send_message_with_retry, its _stream_request and     *)
(* the consumer enhanced_sse_stream of the chat endpoint.  A yield hands   *)
(* the value to the consumer, which formats it and may break out of its    *)
(* loop, so a yield and the consumer's handling of it are one step.        *)
(***************************************************************************)
retry_attempts == 3
retry_delay == 1
MaxMsgs == 2

\* response_data: the dict _parse_sse_message returns (or a synthetic message);
\* dk tells whether data is a dict (with one key `key` holding `val`) or a str
Msg(event, dk, key, val, detail, n, delay) ==
    [event |-> event, dk |-> dk, key |-> key, val |-> val, detail |-> detail,
     n |-> n, delay |-> delay]

M_delta    == Msg("message", "dict", "delta", <<"Hi">>, "", 0, 0)
M_text     == Msg("message", "str", "", <<"[DONE]">>, "", 0, 0)
M_complete == Msg("complete", "dict", "", <<>>, "", 0, 0)
M_error    == Msg("error", "dict", "error", <<"boom">>, "", 0, 0)
\* a block without a data line: _parse_sse_message returns None
M_nodata   == Msg("none", "str", "", <<>>, "", 0, 0)

UpstreamBlocks == {M_delta, M_text, M_complete, M_error, M_nodata}

\* a backoff that does not grow
Delay_flat(a) == retry_delay

\* delay = self.retry_delay * (2 ** attempt)
Delay(a) == retry_delay * (2 ^ a)

\* the retry notification of send_message_with_retry
retry_message(a, delay) == Msg("retry", "dict", "attempt", <<>>, "", a + 1, delay)

\* the error message after all retries failed
error_message(exc) ==
    Msg("error", "dict", "error", <<"N8N service unavailable">>, exc, retry_attempts, 0)

\* enhanced_sse_stream: the frames yielded for one response_data
FormatSSE(m) ==
    CASE m.event = "message" ->
             <<Frame("{\"content\": " \o DumpsStr(m.val) \o "}")>>
      [] m.event = "complete" -> <<DoneFrame>>
      [] m.event = "error" ->
             IF m.detail = ""
             THEN <<Frame("{\"" \o m.key \o "\": " \o DumpsStr(m.val) \o "}")>>
             ELSE <<Frame("{\"error\": " \o DumpsStr(m.val) \o ", \"detail\": \""
                          \o m.detail \o "\", \"retry_attempts\": 3}")>>
      [] OTHER -> <<>>

\* enhanced_sse_stream: does the consumer leave its loop after this message
Breaks(m) == m.event \in {"complete", "error"}

\* where the consumer's break (or the generator's return) leaves the relay
EndOf(m) == IF m.event = "complete" THEN "completed" ELSE "errored"

conn == "s1:0"

\* self.max_connections (10000), scaled down
max_connections == 2

\* a ceiling that admits one connection too many
AtCapacity_above(n) == n > max_connections

\* create_connection: len(self.active_connections) >= self.max_connections
AtCapacity(n) == n >= max_connections

\* SSEConnectionManager.send_message: queue the message if the queue exists
QueuePut(q, id, m) ==
    IF id \in DOMAIN q THEN [q EXCEPT ![id] = Append(@, m)] ELSE q

\* SSEConnectionManager.close_connection
CloseQueues(q, id) == [k \in (DOMAIN q) \ {id} |-> q[k]]

RetryTerminal == {"rejected", "returned", "completed", "errored", "gave_up", "cancelled"}

\* chat.py send_message: create_connection, then the response starts streaming
ChatCreate ==
    /\ rpc = "request"
    /\ IF AtCapacity(Cardinality(active_connections))
       THEN /\ rpc' = "rejected"
            /\ UNCHANGED <<active_connections, connection_queues, attempts>>
       ELSE /\ active_connections' = active_connections \cup {conn}
            /\ connection_queues' = (conn :> <<>>) @@ connection_queues
            /\ rpc' = "connect"
            /\ attempts' = attempts + 1
    /\ UNCHANGED <<attempt, got_content, yielded, sse_out, failures, content_fail,
                   reads, last_exception, relayVars, cbVars,
                   chatVars, decVars, shutVars, escVars, tmVars, rlVars, rtVars>>

\* the except branch of the retry loop
Fail(exc) ==
    /\ failures' = failures + 1
    /\ last_exception' = exc
    /\ content_fail' = IF content_fail = 0 /\ got_content # <<>> THEN attempts
                       ELSE content_fail
    /\ rpc' = IF attempt < retry_attempts - 1 THEN "backoff" ELSE "exhausted"

\* client.stream answers 200
RetryConnectOK ==
    /\ rpc = "connect"
    /\ rpc' = "body"
    /\ UNCHANGED <<attempt, got_content, yielded, sse_out, attempts, failures,
                   content_fail, reads, last_exception, active_connections,
                   connection_queues, relayVars, cbVars,
                   chatVars, decVars, shutVars, escVars, tmVars, rlVars, rtVars>>

\* client.stream raises httpx.RequestError, or answers a status other than 200
RetryConnectFail ==
    /\ rpc = "connect"
    /\ \E exc \in {"N8N returned status 500", "Request failed: connect timeout"} :
           Fail(exc)
    /\ UNCHANGED <<attempt, got_content, yielded, sse_out, attempts, reads,
                   active_connections, connection_queues, relayVars, cbVars,
                   chatVars, decVars, shutVars, escVars, tmVars, rlVars, rtVars>>

\* one SSE block of the upstream body is parsed and, unless None, yielded
RetryMessage ==
    /\ rpc = "body"
    /\ reads < MaxMsgs
    /\ \E m \in UpstreamBlocks :
          IF m.event = "none"
          THEN UNCHANGED <<got_content, yielded, sse_out, rpc, active_connections,
                           connection_queues>>
          ELSE /\ yielded' = Append(yielded, m)
               /\ got_content' = IF m.event = "message" THEN Append(got_content, m)
                                 ELSE got_content
               /\ sse_out' = sse_out \o FormatSSE(m)
               /\ IF Breaks(m)
                  THEN /\ rpc' = EndOf(m)
                       /\ active_connections' = active_connections \ {conn}
                       /\ connection_queues' = CloseQueues(connection_queues, conn)
                  ELSE /\ rpc' = rpc
                       /\ active_connections' = active_connections
                       /\ connection_queues' = QueuePut(connection_queues, conn, m)
    /\ reads' = reads + 1
    /\ UNCHANGED <<attempt, attempts, failures, content_fail, last_exception,
                   relayVars, cbVars,
                   chatVars, decVars, shutVars, escVars, tmVars, rlVars, rtVars>>

\* reading the body raises (httpx.RequestError, UnicodeDecodeError)
RetryBodyFail ==
    /\ rpc = "body"
    /\ \E exc \in {"Request failed: read error", "invalid start byte"} : Fail(exc)
    /\ UNCHANGED <<attempt, got_content, yielded, sse_out, attempts, reads,
                   active_connections, connection_queues, relayVars, cbVars,
                   chatVars, decVars, shutVars, escVars, tmVars, rlVars, rtVars>>

\* the upstream body ends: `return`, the consumer's loop ends, finally closes
RetryBodyEnd ==
    /\ rpc = "body"
    /\ rpc' = "returned"
    /\ active_connections' = active_connections \ {conn}
    /\ connection_queues' = CloseQueues(connection_queues, conn)
    /\ UNCHANGED <<attempt, got_content, yielded, sse_out, attempts, failures,
                   content_fail, reads, last_exception, relayVars, cbVars,
                   chatVars, decVars, shutVars, escVars, tmVars, rlVars, rtVars>>

\* asyncio.sleep(delay) is over: the retry notification is queued and yielded
\* (the consumer has no branch for it), then the next attempt starts
RetryBackoff ==
    /\ rpc = "backoff"
    /\ LET m == retry_message(attempt, Delay(attempt))
       IN  /\ yielded' = Append(yielded, m)
           /\ connection_queues' = QueuePut(connection_queues, conn, m)
           /\ sse_out' = sse_out \o FormatSSE(m)
    /\ attempt' = attempt + 1
    /\ attempts' = attempts + 1
    /\ got_content' = <<>>
    /\ reads' = 0
    /\ rpc' = "connect"
    /\ UNCHANGED <<failures, content_fail, last_exception, active_connections,
                   relayVars, cbVars,
                   chatVars, decVars, shutVars, escVars, tmVars, rlVars, rtVars>>

\* all retries failed: error_message is yielded, the consumer emits it and
\* breaks; the generator is never resumed, so its raise is not reached
RetryExhausted ==
    /\ rpc = "exhausted"
    /\ LET m == error_message(last_exception)
       IN  /\ yielded' = Append(yielded, m)
           /\ sse_out' = sse_out \o FormatSSE(m)
    /\ rpc' = "gave_up"
    /\ active_connections' = active_connections \ {conn}
    /\ connection_queues' = CloseQueues(connection_queues, conn)
    /\ UNCHANGED <<attempt, got_content, attempts, failures, content_fail, reads,
                   last_exception, relayVars, cbVars,
                   chatVars, decVars, shutVars, escVars, tmVars, rlVars, rtVars>>

\* the client disconnects: the response generator is cancelled, finally closes
RetryDisconnect ==
    /\ rpc \in {"connect", "body", "backoff", "exhausted"}
    /\ rpc' = "cancelled"
    /\ active_connections' = active_connections \ {conn}
    /\ connection_queues' = CloseQueues(connection_queues, conn)
    /\ UNCHANGED <<attempt, got_content, yielded, sse_out, attempts, failures,
                   content_fail, reads, last_exception, relayVars, cbVars,
                   chatVars, decVars, shutVars, escVars, tmVars, rlVars, rtVars>>

InitRetry ==
    /\ RtIdle
    /\ RlIdle
    /\ TmIdle
    /\ EscIdle
    /\ ShutIdle
    /\ attempt = 0 /\ rpc = "request" /\ got_content = <<>> /\ yielded = <<>>
    /\ sse_out = <<>> /\ attempts = 0 /\ failures = 0 /\ content_fail = 0
    /\ reads = 0 /\ last_exception = "None"
    /\ active_connections = {} /\ connection_queues = <<>>
    /\ RelayIdle
    /\ CBIdle
    /\ ChatIdle
    /\ DecIdle

NextRetry ==
    \/ ChatCreate
    \/ RetryConnectOK
    \/ RetryConnectFail
    \/ RetryMessage
    \/ RetryBodyFail
    \/ RetryBodyEnd
    \/ RetryBackoff
    \/ RetryExhausted
    \/ RetryDisconnect

SpecRetry == InitRetry /\ [][NextRetry]_vars

\* the frame enhanced_sse_stream yields for the exhaustion error
GaveUpFrame == FormatSSE(error_message(last_exception))[1]

\* the messages carrying content among the yielded ones
ContentOf(q) == SelectSeq(q, LAMBDA m : m.event = "message")

\* C2: when the upstream stream ended normally (with or without a `complete`
\* event) the client has received exactly one [DONE] frame.
C2_DoneAfterNormalEnd ==
    rpc \in {"returned", "completed"} => Count(sse_out, DoneFrame) = 1

\* C3: when every attempt failed, retry_attempts attempts were made and the
\* client's stream ends with exactly one Error frame followed by exactly one
\* [DONE] frame.
C3_ErrorThenDoneAfterExhaustion ==
    rpc = "gave_up" =>
        /\ attempts = retry_attempts
        /\ Count(sse_out, GaveUpFrame) = 1
        /\ Count(sse_out, DoneFrame) = 1
        /\ Len(sse_out) >= 2
        /\ sse_out[Len(sse_out) - 1] = GaveUpFrame
        /\ sse_out[Len(sse_out)] = DoneFrame

\* C4: when N < retry_attempts attempts failed and the next one succeeded,
\* N + 1 attempts were made and the content yielded is exactly the content of
\* the successful attempt.
C4_SuccessContentOnce ==
    (rpc = "returned" /\ failures < retry_attempts) =>
        /\ attempts = failures + 1
        /\ ContentOf(yielded) = got_content

\* C5: once an attempt has failed after yielding content, no further attempt
\* is started.
C5_NoRetryAfterContent ==
    content_fail # 0 => attempts = content_fail

(***************************************************************************)
(* CircuitBreakerMiddleware.  The event loop runs one coroutine at a time  *)
(* and _is_circuit_open, _record_failure and _record_success never await,  *)
(* so each runs to its end without interleaving; a request is suspended    *)
(* only in `await call_next(request)`.                                     *)
(***************************************************************************)
\* the constructor's failure_threshold (default 5) and recovery_timeout
\* (default 60 seconds), scaled down
failure_threshold == 3
recovery_timeout == 2
MaxReq == 2
MaxTime == 6

Slots == 1 .. MaxReq

service_key == "n8n_service"

ChatPath == "/api/v1/chat/message"

\* the routes of the application that installs the middleware
Paths == {ChatPath, "/api/v1/chat/history", "/api/v1/session/create",
          "/api/v1/session/destroy", "/health", "/metrics"}

\* the routes whose handler calls the upstream
Relays(path) == path = ChatPath

\* str.startswith
StartsWith(str, prefix) ==
    /\ Len(str) >= Len(prefix)
    /\ SubSeq(str, 1, Len(prefix)) = prefix

\* a breaker that guards every route
Guarded_all(path) == StartsWith(path, "/")

\* request.url.path.startswith('/api/v1/chat/message')
Guarded(path) == StartsWith(path, "/api/v1/chat/message")

\* dict.get(key, default)
Get(d, k, default) == IF k \in DOMAIN d THEN d[k] ELSE default

\* d[k] = v
Put(d, k, v) == (k :> v) @@ d

\* _is_circuit_open: does the recovery timeout still run
StillOpen(t) == ~(t - Get(last_failure_times, service_key, 0) > recovery_timeout)

\* _is_circuit_open: the value it returns
IsCircuitOpen ==
    /\ service_key \in DOMAIN circuit_open
    /\ circuit_open[service_key]
    /\ StillOpen(now)

\* _is_circuit_open: does it reset the breaker
Resets ==
    /\ service_key \in DOMAIN circuit_open
    /\ circuit_open[service_key]
    /\ ~StillOpen(now)

\* a failure whose increment is lost
FailureCount_lost(c) == c

\* _record_failure: the new counter
FailureCount(c) == c + 1

\* a breaker that opens one failure late
Opens_late(c) == c > failure_threshold

\* _record_failure: is the circuit opened
Opens(c) == c >= failure_threshold

\* a decrement without the floor at zero
SuccessCount_nofloor(c) == c - 1

\* _record_success: the new counter
SuccessCount(c) == IF c - 1 > 0 THEN c - 1 ELSE 0

\* _record_failure
RecordFailure ==
    /\ failure_counts' = Put(failure_counts, service_key,
                             FailureCount(Get(failure_counts, service_key, 0)))
    /\ last_failure_times' = Put(last_failure_times, service_key, now)
    /\ circuit_open' = IF Opens(FailureCount(Get(failure_counts, service_key, 0)))
                       THEN Put(circuit_open, service_key, TRUE)
                       ELSE circuit_open
    /\ consec' = consec + 1
    /\ last_op' = [op |-> "failure", before |-> Get(failure_counts, service_key, 0)]

\* _record_success
RecordSuccess ==
    /\ failure_counts' = IF service_key \in DOMAIN failure_counts
                         THEN Put(failure_counts, service_key,
                                  SuccessCount(failure_counts[service_key]))
                         ELSE failure_counts
    /\ UNCHANGED <<last_failure_times, circuit_open>>
    /\ consec' = 0
    /\ last_op' = [op |-> "success", before |-> Get(failure_counts, service_key, 0)]

\* dispatch up to `await call_next(request)` or the synthetic 503
Dispatch(r, path) ==
    /\ req[r] \in {"idle", "shorted"}
    /\ IF ~Guarded(path)
       THEN /\ req' = [req EXCEPT ![r] = "pass"]
            /\ UNCHANGED <<failure_counts, last_failure_times, circuit_open, trial,
                           trial_result, consec, last_op>>
       ELSE IF IsCircuitOpen
       THEN /\ req' = [req EXCEPT ![r] = "shorted"]
            /\ UNCHANGED <<failure_counts, last_failure_times, circuit_open, trial,
                           trial_result, consec, last_op>>
       ELSE IF Resets
       THEN /\ circuit_open' = Put(circuit_open, service_key, FALSE)
            /\ failure_counts' = Put(failure_counts, service_key, 0)
            /\ req' = [req EXCEPT ![r] = "inflight"]
            /\ trial' = r
            /\ trial_result' = "pending"
            /\ consec' = 0
            /\ last_op' = [op |-> "reset", before |-> Get(failure_counts, service_key, 0)]
            /\ UNCHANGED last_failure_times
       ELSE /\ req' = [req EXCEPT ![r] = "inflight"]
            /\ UNCHANGED <<failure_counts, last_failure_times, circuit_open, trial,
                           trial_result, consec, last_op>>
    /\ UNCHANGED <<now, relayVars, retryVars,
                   chatVars, decVars, shutVars, escVars, tmVars, rlVars, rtVars>>

\* the trial's bookkeeping when request r ends with the given result
EndTrial(r, result) ==
    IF trial = r
    THEN trial' = 0 /\ trial_result' = result
    ELSE UNCHANGED <<trial, trial_result>>

\* call_next returned a response with status_code < 500
RespondOk(r) ==
    /\ req[r] = "inflight"
    /\ RecordSuccess
    /\ req' = [req EXCEPT ![r] = "idle"]
    /\ EndTrial(r, "ok")
    /\ UNCHANGED <<now, relayVars, retryVars,
                   chatVars, decVars, shutVars, escVars, tmVars, rlVars, rtVars>>

\* call_next returned a response with status_code >= 500, or raised
RespondFail(r) ==
    /\ req[r] = "inflight"
    /\ RecordFailure
    /\ req' = [req EXCEPT ![r] = "idle"]
    /\ EndTrial(r, "failed")
    /\ UNCHANGED <<now, relayVars, retryVars,
                   chatVars, decVars, shutVars, escVars, tmVars, rlVars, rtVars>>

\* call_next of a request outside the guarded endpoint returned
PassDone(r) ==
    /\ req[r] = "pass"
    /\ req' = [req EXCEPT ![r] = "idle"]
    /\ UNCHANGED <<failure_counts, last_failure_times, circuit_open, now, trial,
                   trial_result, consec, last_op, relayVars, retryVars,
                   chatVars, decVars, shutVars, escVars, tmVars, rlVars, rtVars>>

\* time.time() advances
Tick ==
    /\ now < MaxTime
    /\ now' = now + 1
    /\ UNCHANGED <<failure_counts, last_failure_times, circuit_open, req, trial,
                   trial_result, consec, last_op, relayVars, retryVars,
                   chatVars, decVars, shutVars, escVars, tmVars, rlVars, rtVars>>

InitCB ==
    /\ RtIdle
    /\ RlIdle
    /\ TmIdle
    /\ EscIdle
    /\ ShutIdle
    /\ failure_counts = <<>>
    /\ last_failure_times = <<>>
    /\ circuit_open = <<>>
    /\ now = 0
    /\ req = [r \in Slots |-> "idle"]
    /\ trial = 0
    /\ trial_result = "none"
    /\ consec = 0
    /\ last_op = [op |-> "none", before |-> 0]
    /\ RelayIdle
    /\ RetryIdle
    /\ ChatIdle
    /\ DecIdle

NextCB ==
    \/ \E r \in Slots, path \in Paths : Dispatch(r, path)
    \/ \E r \in Slots : RespondOk(r)
    \/ \E r \in Slots : RespondFail(r)
    \/ \E r \in Slots : PassDone(r)
    \/ Tick

SpecCB == InitCB /\ [][NextCB]_vars

\* circuit_open[service_key] is set
OpenFlag == service_key \in DOMAIN circuit_open /\ circuit_open[service_key]

\* C6: after failure_threshold consecutive recorded failures, and for as long
\* as recovery_timeout has not elapsed since the last recorded failure, every
\* request to the guarded endpoint is answered with the synthetic 503 without
\* call_next being invoked, and the breaker's state is left as it is.
C6_ShortCircuitWhileOpen ==
    [][\A r \in Slots :
          (consec >= failure_threshold /\ StillOpen(now) /\ Dispatch(r, ChatPath))
              => /\ req'[r] = "shorted"
                 /\ UNCHANGED <<failure_counts, last_failure_times, circuit_open>>]_vars

\* a request was short-circuited after failure_threshold consecutive failures,
\* within the recovery timeout of the last one
C6_Witness ==
    /\ consec >= failure_threshold
    /\ last_op.op = "failure"
    /\ StillOpen(now)
    /\ \E r \in Slots : req[r] = "shorted"

\* C7: while the trial request is in flight, every other request that arrives
\* at the guarded endpoint is short-circuited.
C7_OneTrialOnly ==
    [][\A r \in Slots :
          (trial_result = "pending" /\ Dispatch(r, ChatPath)) => req'[r] = "shorted"]_vars

\* C8: when the trial request fails, the circuit is open right after that
\* failure and the recovery timer starts from it.
C8_TrialFailureReopens ==
    [][\A r \in Slots :
          (trial = r /\ trial_result = "pending" /\ RespondFail(r))
              => /\ service_key \in DOMAIN circuit_open'
                 /\ circuit_open'[service_key]
                 /\ last_failure_times'[service_key] = now]_vars

\* C9: when the trial request succeeds, the circuit is closed afterwards, so
\* that requests arriving next are admitted.
C9_TrialSuccessCloses ==
    [][\A r \in Slots :
          (trial = r /\ trial_result = "pending" /\ RespondOk(r)) => ~OpenFlag']_vars

C11_NoLostUpdate ==
    /\ [](Get(failure_counts, service_key, 0) >= failure_threshold => OpenFlag)
    /\ [][\A r \in Slots :
            /\ RespondFail(r) =>
                   /\ service_key \in DOMAIN failure_counts'
                   /\ failure_counts'[service_key] = Get(failure_counts, service_key, 0) + 1
                   /\ (Get(failure_counts, service_key, 0) + 1 >= failure_threshold
                           => OpenFlag')
            /\ RespondOk(r) =>
                   /\ Get(failure_counts', service_key, 0) =
                          IF Get(failure_counts, service_key, 0) > 0
                          THEN Get(failure_counts, service_key, 0) - 1 ELSE 0
                   /\ circuit_open' = circuit_open]_vars

\* a failure reported while another request was still in flight brought the
\* counter to the threshold
C11_Witness ==
    /\ last_op.op = "failure"
    /\ last_op.before + 1 = failure_threshold
    /\ failure_counts[service_key] = failure_threshold
    /\ OpenFlag
    /\ \E r \in Slots : req[r] = "inflight"

(***************************************************************************)
(* send_message of the chat endpoint with SSEConnectionManager.  Several   *)
(* requests are handled concurrently; a handler is suspended only at its   *)
(* awaits on the database, the session store and the upstream, never       *)
(* inside create_connection, close_connection or send_message of the       *)
(* manager, whose bodies never suspend.  The contents of the queues are    *)
(* not followed here.  Time is kept relative: inactive is the age of       *)
(* last_activity, hb_wait and cl_wait are what is left of the sleeps of    *)
(* the background tasks.                                                   *)
(***************************************************************************)
\* heartbeat_interval (30 s), the cleanup loop's sleep (60 s) and
\* connection_timeout (300 s), in units of 30 seconds
heartbeat_interval == 1
cleanup_interval == 2
connection_timeout == 10
MaxEpoch == 1

HTTP_200_OK == 200
HTTP_400_BAD_REQUEST == 400
HTTP_429_TOO_MANY_REQUESTS == 429
HTTP_500_INTERNAL_SERVER_ERROR == 500
HTTP_503_SERVICE_UNAVAILABLE == 503

\* one request more than the registry holds
Reqs == 1 .. (max_connections + 1)

\* session.session_id of a request: the first two requests share a session
Session(r) == IF r <= 2 THEN "s1" ELSE "s" \o ToString(r - 1)

\* f"{session_id}:{int(time.time())}"
ConnId(session_id, t) == session_id \o ":" \o ToString(t)

\* a del that removes nothing
DelKey_none(d, k) == d

\* del d[k]
DelKey(d, k) == [x \in (DOMAIN d) \ {k} |-> d[x]]

\* min(a, b)
Min(a, b) == IF a < b THEN a ELSE b

\* the except clauses of send_message: the status of the HTTPException raised
\* for an exception of the given class
HandlerStatus(exc) ==
    CASE exc = "ValidationError"        -> HTTP_400_BAD_REQUEST
      [] exc = "RateLimitExceededError" -> HTTP_429_TOO_MANY_REQUESTS
      [] OTHER                          -> HTTP_500_INTERNAL_SERVER_ERROR

\* the exceptions raised before create_connection is reached
EarlyErrors == {"ValidationError", "RateLimitExceededError", "Exception"}

retryRest == <<attempt, rpc, got_content, yielded, sse_out, attempts, failures,
               content_fail, reads, last_exception>>

\* security validation, input validation or threat detection raises
HandlerInvalid(r) ==
    /\ handler[r] = "new"
    /\ \E exc \in EarlyErrors :
           http' = [http EXCEPT ![r] = HandlerStatus(exc)]
    /\ handler' = [handler EXCEPT ![r] = "failed_early"]
    /\ UNCHANGED <<cid, upstream_calls, inactive, hb_wait, cl_wait, epoch,
                   active_connections, connection_queues, retryRest, relayVars,
                   cbVars, decVars, shutVars, escVars, tmVars, rlVars, rtVars>>

\* sse_manager.create_connection: at the ceiling it raises
\* HTTPException(503), which the handler's `except Exception` answers
HandlerCreate(r) ==
    /\ handler[r] = "new"
    /\ epoch < MaxEpoch
    /\ LET id == ConnId(Session(r), epoch)
       IN  IF AtCapacity(Cardinality(active_connections))
           THEN /\ handler' = [handler EXCEPT ![r] = "rejected"]
                /\ http' = [http EXCEPT ![r] = HandlerStatus("HTTPException")]
                /\ UNCHANGED <<cid, active_connections, connection_queues, inactive>>
           ELSE /\ active_connections' = active_connections \cup {id}
                /\ connection_queues' = Put(connection_queues, id, <<>>)
                /\ inactive' = Put(inactive, id, 0)
                /\ cid' = [cid EXCEPT ![r] = id]
                /\ handler' = [handler EXCEPT ![r] = "created"]
                /\ http' = http
    /\ UNCHANGED <<upstream_calls, hb_wait, cl_wait, epoch, retryRest, relayVars,
                   cbVars, decVars, shutVars, escVars, tmVars, rlVars, rtVars>>

\* db.commit, the session update or jwt_service.create_chat_token raises
HandlerFail(r) ==
    /\ handler[r] = "created"
    /\ handler' = [handler EXCEPT ![r] = "failed"]
    /\ http' = [http EXCEPT ![r] = HandlerStatus("Exception")]
    /\ UNCHANGED <<cid, upstream_calls, inactive, hb_wait, cl_wait, epoch,
                   active_connections, connection_queues, retryRest, relayVars,
                   cbVars, decVars, shutVars, escVars, tmVars, rlVars, rtVars>>

\* the EventSourceResponse is returned and enhanced_sse_stream starts: the
\* request goes to the upstream
HandlerRespond(r) ==
    /\ handler[r] = "created"
    /\ handler' = [handler EXCEPT ![r] = "streaming"]
    /\ http' = [http EXCEPT ![r] = HTTP_200_OK]
    /\ upstream_calls' = [upstream_calls EXCEPT ![r] = @ + 1]
    /\ UNCHANGED <<cid, inactive, hb_wait, cl_wait, epoch, active_connections,
                   connection_queues, retryRest, relayVars, cbVars, decVars, shutVars, escVars, tmVars, rlVars, rtVars>>

\* SSEConnectionManager.send_message: last_activity is refreshed when the
\* id has a queue and a connection
Touch(id) ==
    IF id \in DOMAIN connection_queues /\ id \in active_connections
    THEN [inactive EXCEPT ![id] = 0]
    ELSE inactive

\* an upstream message is passed to connection_manager.send_message
StreamFrame(r) ==
    /\ handler[r] = "streaming"
    /\ inactive' = Touch(cid[r])
    /\ UNCHANGED <<handler, http, cid, upstream_calls, hb_wait, cl_wait, epoch,
                   active_connections, connection_queues, retryRest, relayVars,
                   cbVars, decVars, shutVars, escVars, tmVars, rlVars, rtVars>>

\* SSEConnectionManager.close_connection
CloseConnection(id) ==
    IF id \in active_connections
    THEN /\ active_connections' = active_connections \ {id}
         /\ connection_queues' = DelKey(connection_queues, id)
         /\ inactive' = DelKey(inactive, id)
    ELSE UNCHANGED <<active_connections, connection_queues, inactive>>

\* the stream ends (complete event, end of body, error message, exception):
\* the finally block of enhanced_sse_stream closes the connection
StreamEnd(r) ==
    /\ handler[r] = "streaming"
    /\ \E how \in {"completed", "errored"} :
           handler' = [handler EXCEPT ![r] = how]
    /\ CloseConnection(cid[r])
    /\ UNCHANGED <<http, cid, upstream_calls, hb_wait, cl_wait, epoch, retryRest,
                   relayVars, cbVars, decVars, shutVars, escVars, tmVars, rlVars, rtVars>>

\* the client disconnects: the generator is cancelled, its finally block runs
StreamDisconnect(r) ==
    /\ handler[r] = "streaming"
    /\ handler' = [handler EXCEPT ![r] = "cancelled"]
    /\ CloseConnection(cid[r])
    /\ UNCHANGED <<http, cid, upstream_calls, hb_wait, cl_wait, epoch, retryRest,
                   relayVars, cbVars, decVars, shutVars, escVars, tmVars, rlVars, rtVars>>

\* _heartbeat_loop: the sleep is over, a heartbeat is sent to every queue
Heartbeat ==
    /\ hb_wait = 0
    /\ inactive' = [id \in DOMAIN inactive |->
                        IF id \in DOMAIN connection_queues THEN 0 ELSE inactive[id]]
    /\ hb_wait' = heartbeat_interval
    /\ UNCHANGED <<handler, http, cid, upstream_calls, cl_wait, epoch,
                   active_connections, connection_queues, retryRest, relayVars,
                   cbVars, decVars, shutVars, escVars, tmVars, rlVars, rtVars>>

\* _cleanup_loop: the connections found inactive
Expired == {id \in active_connections : inactive[id] > connection_timeout}

\* _cleanup_loop: the sleep is over, every inactive connection is closed
Cleanup ==
    /\ cl_wait = 0
    /\ active_connections' = active_connections \ Expired
    /\ connection_queues' = [k \in (DOMAIN connection_queues) \ Expired |->
                                 connection_queues[k]]
    /\ inactive' = [k \in (DOMAIN inactive) \ Expired |-> inactive[k]]
    /\ cl_wait' = cleanup_interval
    /\ UNCHANGED <<handler, http, cid, upstream_calls, hb_wait, epoch, retryRest,
                   relayVars, cbVars, decVars, shutVars, escVars, tmVars, rlVars, rtVars>>

\* one unit of time passes while both background tasks sleep
ChatTick ==
    /\ hb_wait > 0
    /\ cl_wait > 0
    /\ hb_wait' = hb_wait - 1
    /\ cl_wait' = cl_wait - 1
    /\ inactive' = [id \in DOMAIN inactive |->
                        Min(inactive[id] + 1, connection_timeout + 1)]
    /\ epoch' = Min(epoch + 1, MaxEpoch)
    /\ UNCHANGED <<handler, http, cid, upstream_calls, active_connections,
                   connection_queues, retryRest, relayVars, cbVars, decVars, shutVars, escVars, tmVars, rlVars, rtVars>>

InitChat ==
    /\ RtIdle
    /\ RlIdle
    /\ TmIdle
    /\ EscIdle
    /\ ShutIdle
    /\ handler = [r \in Reqs |-> "new"]
    /\ http = [r \in Reqs |-> 0]
    /\ cid = [r \in Reqs |-> ""]
    /\ upstream_calls = [r \in Reqs |-> 0]
    /\ inactive = <<>>
    /\ hb_wait = heartbeat_interval
    /\ cl_wait = cleanup_interval
    /\ epoch = 0
    /\ attempt = 0 /\ rpc = "idle" /\ got_content = <<>> /\ yielded = <<>>
    /\ sse_out = <<>> /\ attempts = 0 /\ failures = 0 /\ content_fail = 0
    /\ reads = 0 /\ last_exception = "None"
    /\ active_connections = {} /\ connection_queues = <<>>
    /\ RelayIdle
    /\ CBIdle
    /\ DecIdle

NextChat ==
    \/ \E r \in Reqs : HandlerInvalid(r)
    \/ \E r \in Reqs : HandlerCreate(r)
    \/ \E r \in Reqs : HandlerFail(r)
    \/ \E r \in Reqs : HandlerRespond(r)
    \/ \E r \in Reqs : StreamFrame(r)
    \/ \E r \in Reqs : StreamEnd(r)
    \/ \E r \in Reqs : StreamDisconnect(r)
    \/ Heartbeat
    \/ Cleanup
    \/ ChatTick

SpecChat == InitChat /\ [][NextChat]_vars

\* the event loop runs every task that is ready: the background tasks wake
\* up when their sleep is over, time passes, a handler that is not waiting
\* for the client goes on, and every stream ends or is cancelled
SpecChatFair ==
    /\ SpecChat
    /\ WF_vars(Heartbeat)
    /\ WF_vars(Cleanup)
    /\ WF_vars(ChatTick)
    /\ \A r \in Reqs : WF_vars(HandlerFail(r) \/ HandlerRespond(r))
    /\ \A r \in Reqs : WF_vars(StreamEnd(r) \/ StreamDisconnect(r))

\* C12: the registry never holds more than max_connections entries, and
\* create_connection called at the ceiling raises the capacity error and
\* leaves active_connections and connection_queues as they are.
C12_CeilingHolds ==
    /\ [](/\ Cardinality(active_connections) <= max_connections
          /\ Cardinality(DOMAIN connection_queues) <= max_connections)
    /\ [][\A r \in Reqs :
            (Cardinality(active_connections) >= max_connections /\ HandlerCreate(r))
                => /\ handler'[r] = "rejected"
                   /\ UNCHANGED <<active_connections, connection_queues>>]_vars

\* a request was rejected by a registry that holds max_connections entries
C12_Witness ==
    /\ Cardinality(active_connections) = max_connections
    /\ \E r \in Reqs : handler[r] = "rejected" /\ cid[r] = ""

\* C13: a request that arrives at the ceiling is rejected before any call to
\* the upstream, and the status the client sees is not the one of the other
\* internal failures (500).
C13_CapacityErrorDistinct ==
    \A r \in Reqs :
        handler[r] = "rejected" =>
            /\ upstream_calls[r] = 0
            /\ http[r] # HTTP_500_INTERNAL_SERVER_ERROR

\* C15: every connection created by create_connection is eventually removed
\* from the registry, whichever way the handler goes on.
C15_CreatedEventuallyRemoved ==
    \A r \in Reqs :
        (handler[r] = "created") ~> (cid[r] \notin active_connections)

\* C14: when the client disconnects mid-stream, the relay's registry entry is
\* removed by that very step, and from then on no upstream line is read and
\* no frame is yielded, neither an Error frame nor [DONE]; this holds for
\* forward_to_n8n_stream and for enhanced_sse_stream.
C14_SilentDisconnect ==
    /\ [][RelayDisconnect =>
            /\ connection_id \notin tracked'
            /\ UNCHANGED <<out, body, tail>>]_vars
    /\ [][fpc = "cancelled" => UNCHANGED <<out, body, tail, tracked, fpc>>]_vars
    /\ [][RetryDisconnect =>
            /\ conn \notin active_connections'
            /\ conn \notin DOMAIN connection_queues'
            /\ UNCHANGED <<sse_out, yielded, reads, attempts>>]_vars
    /\ [][rpc = "cancelled" =>
            UNCHANGED <<sse_out, yielded, reads, attempts, active_connections, rpc>>]_vars

\* the production relay was cancelled after it had yielded a frame and while
\* upstream lines were still unread
C14_Witness ==
    /\ mode = "production"
    /\ fpc = "cancelled"
    /\ out # <<>>
    /\ body # <<>>
    /\ connection_id \notin tracked

\* a line of a well-formed begin / item* / end stream
WellFormedLines == {L_begin, L_item, L_end}

\* C18: frames are appended in the order of the upstream lines, and every
\* line of a well-formed begin / item* / end stream yields exactly one frame
\* (forward_to_n8n_stream of main_production.py and main_simple.py).
C18_OneFramePerLine ==
    [][(RelayLine /\ mode \in {"production", "simple"}
                  /\ Head(body) \in WellFormedLines)
          => /\ Len(out') = Len(out) + 1
             /\ SubSeq(out', 1, Len(out)) = out]_vars

\* C19: no upstream line, whatever it holds, ends the relay: after a line is
\* handled the relay goes on reading, and no Error frame is produced for it
\* (forward_to_n8n_stream of main_production.py and main_simple.py).
C19_NoLineTerminates ==
    [][(RelayLine /\ mode \in {"production", "simple"}) => fpc' = "reading"]_vars

\* is one of the characters i .. j of the frame a raw newline or carriage return
RECURSIVE HasRawBreak(_, _, _)
HasRawBreak(f, i, j) ==
    /\ i <= j
    /\ \/ SubSeq(f, i, i) = "\n"
       \/ SubSeq(f, i, i) = "\r"
       \/ HasRawBreak(f, i + 1, j)

\* `data: <payload>` and a blank line, the payload being one line
WellShaped(f) ==
    /\ Len(f) >= 8
    /\ SubSeq(f, 1, 6) = "data: "
    /\ SubSeq(f, Len(f) - 1, Len(f)) = "\n\n"
    /\ ~HasRawBreak(f, 7, Len(f) - 2)

\* C20: every frame a relay has yielded is `data: <payload>` followed by a
\* blank line, with no raw newline or carriage return inside the payload.
C20_FramesWellShaped ==
    \A i \in 1 .. Len(out) : WellShaped(out[i])

(***************************************************************************)
(* The byte-buffer and line-splitting loops: forward_to_n8n_stream of      *)
(* main_production.py and main_simple.py, and _stream_request of           *)
(* sse_manager.py.  A byte is "a" (any ASCII letter), "\n", "C3" (the lead *)
(* byte of a two-byte character) or "A9" (a continuation byte); a text is  *)
(* a sequence of characters, "U+E9" being the character C3 A9 and "U+FFFD" *)
(* the replacement character.                                              *)
(***************************************************************************)
MaxBytes == 4

Bytes == {"a", "\n", "C3", "A9"}

DecModes == {"production", "simple", "sse_manager"}

\* bytes.decode("utf-8") from byte i on, acc being the text decoded so far;
\* start is UnicodeDecodeError.start
RECURSIVE Utf8(_, _, _)
Utf8(bs, i, acc) ==
    IF i > Len(bs) THEN [ok |-> TRUE, text |-> acc, start |-> Len(bs)]
    ELSE IF bs[i] \notin {"C3", "A9"} THEN Utf8(bs, i + 1, Append(acc, bs[i]))
    ELSE IF bs[i] = "C3" /\ i < Len(bs) /\ bs[i + 1] = "A9"
         THEN Utf8(bs, i + 2, Append(acc, "U+E9"))
    ELSE [ok |-> FALSE, text |-> acc, start |-> i - 1]

\* bytes.decode("utf-8")
Decode(bs) == Utf8(bs, 1, <<>>)

\* bytes.decode("utf-8", errors="replace")
RECURSIVE Utf8Replace(_, _, _)
Utf8Replace(bs, i, acc) ==
    IF i > Len(bs) THEN acc
    ELSE IF bs[i] \notin {"C3", "A9"} THEN Utf8Replace(bs, i + 1, Append(acc, bs[i]))
    ELSE IF bs[i] = "C3" /\ i < Len(bs) /\ bs[i + 1] = "A9"
         THEN Utf8Replace(bs, i + 2, Append(acc, "U+E9"))
    ELSE Utf8Replace(bs, i + 1, Append(acc, "U+FFFD"))

\* what the byte-buffer code does with one chunk: the decoded fragment
\* chunk_str, whether the loop body goes on to the line loop (go) or
\* continues with the next chunk, the bytes carried over, and whether
\* UnicodeDecodeError leaves the loop
ByteStep(m, bb, chunk) ==
    CASE m = "production" ->
             LET d == Decode(bb \o chunk)
             IN  IF d.ok THEN [str |-> d.text, go |-> TRUE, bb |-> <<>>, raise |-> FALSE]
                 ELSE [str |-> <<>>, go |-> FALSE, bb |-> bb \o chunk, raise |-> FALSE]
      [] m = "simple" ->
             LET all == bb \o chunk
                 d   == Decode(all)
             IN  IF d.ok THEN [str |-> d.text, go |-> TRUE, bb |-> <<>>, raise |-> FALSE]
                 ELSE IF d.start > 0
                 THEN [str |-> Decode(SubSeq(all, 1, d.start)).text, go |-> TRUE,
                       bb |-> SubSeq(all, d.start + 1, Len(all)), raise |-> FALSE]
                 ELSE [str |-> <<>>, go |-> FALSE, bb |-> all, raise |-> FALSE]
      [] m = "sse_manager" ->
             LET d == Decode(chunk)
             IN  IF d.ok THEN [str |-> d.text, go |-> TRUE, bb |-> <<>>, raise |-> FALSE]
                 ELSE [str |-> <<>>, go |-> FALSE, bb |-> <<>>, raise |-> TRUE]

\* a buffer that forgets what it held
AppendChunk_reset(buf, chunk_str) == chunk_str

\* buffer += chunk_str
AppendChunk(buf, chunk_str) == buf \o chunk_str

Whitespace == {" ", "\n", "\r", "\t"}

RECURSIVE LStrip(_)
LStrip(t) == IF t # <<>> /\ Head(t) \in Whitespace THEN LStrip(Tail(t)) ELSE t

RECURSIVE RStrip(_)
RStrip(t) == IF t # <<>> /\ t[Len(t)] \in Whitespace
             THEN RStrip(SubSeq(t, 1, Len(t) - 1)) ELSE t

\* str.strip()
Strip(t) == RStrip(LStrip(t))

\* str.find(sep) for a separator of n newlines: the first index from i on
\* (0: none)
RECURSIVE Find(_, _, _)
Find(buf, n, i) ==
    IF i + n - 1 > Len(buf) THEN 0
    ELSE IF \A k \in i .. (i + n - 1) : buf[k] = "\n" THEN i
    ELSE Find(buf, n, i + 1)

\* a line handed to the interpreter: by the line loop, or as the remaining
\* buffer after the stream ended
Handed(line, by) == [line |-> line, by |-> by]

\* while sep in buffer: line, buffer = buffer.split(sep, 1); ...
\* (n is the length of the separator: "\n" in the relays, where the line is
\* stripped, "\n\n" in _stream_request, where the message is passed as it is)
RECURSIVE SplitLoop(_, _)
SplitLoop(buf, n) ==
    LET k == Find(buf, n, 1)
    IN  IF k = 0 THEN [lines |-> <<>>, rest |-> buf]
        ELSE LET part == SubSeq(buf, 1, k - 1)
                 r    == SplitLoop(SubSeq(buf, k + n, Len(buf)), n)
                 line == IF n = 1 THEN Strip(part) ELSE part
             IN  [lines |-> (IF Strip(part) # <<>> THEN <<Handed(line, "loop")>> ELSE <<>>)
                                \o r.lines,
                  rest  |-> r.rest]

\* the length of the separator the loop splits on
SepLen(m) == IF m = "sse_manager" THEN 2 ELSE 1

\* the remaining buffer after the stream ended
Remaining(m, buf) ==
    IF Strip(buf) = <<>> THEN <<>>
    ELSE IF m = "sse_manager" THEN <<Handed(buf, "tail")>>
    ELSE <<Handed(Strip(buf), "tail")>>

\* one chunk is read: the byte-buffer code, then the line loop
DecChunk ==
    /\ dpc = "reading"
    /\ nread < Len(chunks)
    /\ LET r == ByteStep(dmode, byte_buffer, chunks[nread + 1])
           s == SplitLoop(AppendChunk(buffer, r.str), SepLen(dmode))
       IN  IF r.raise
           THEN /\ dpc' = "raised"
                /\ UNCHANGED <<byte_buffer, buffer, decoded, handed>>
           ELSE /\ byte_buffer' = r.bb
                /\ dpc' = dpc
                /\ IF r.go
                   THEN /\ decoded' = decoded \o r.str
                        /\ buffer' = s.rest
                        /\ handed' = handed \o s.lines
                   ELSE UNCHANGED <<buffer, decoded, handed>>
    /\ nread' = nread + 1
    /\ UNCHANGED <<dmode, input, chunks, relayVars, retryVars, cbVars, chatVars, shutVars, escVars, tmVars, rlVars, rtVars>>

\* the stream ends: main_simple.py decodes the bytes left with
\* errors="replace", main_production.py leaves them; the remaining buffer is
\* handed over
DecEnd ==
    /\ dpc = "reading"
    /\ nread = Len(chunks)
    /\ LET remaining_str == IF dmode = "simple" THEN Utf8Replace(byte_buffer, 1, <<>>)
                            ELSE <<>>
       IN  /\ decoded' = decoded \o remaining_str
           /\ buffer' = AppendChunk(buffer, remaining_str)
           /\ handed' = handed \o Remaining(dmode, AppendChunk(buffer, remaining_str))
    /\ dpc' = "done"
    /\ UNCHANGED <<dmode, input, chunks, nread, byte_buffer, relayVars, retryVars,
                   cbVars, chatVars, shutVars, escVars, tmVars, rlVars, rtVars>>

\* every way to cut a byte sequence into non-empty chunks
RECURSIVE Partitions(_)
Partitions(bs) ==
    IF bs = <<>> THEN {<<>>}
    ELSE UNION {{<<SubSeq(bs, 1, k)>> \o p :
                     p \in Partitions(SubSeq(bs, k + 1, Len(bs)))} : k \in 1 .. Len(bs)}

InitDecode ==
    /\ RtIdle
    /\ RlIdle
    /\ TmIdle
    /\ EscIdle
    /\ ShutIdle
    /\ dmode \in DecModes
    /\ input \in SeqsUpTo(Bytes, MaxBytes)
    /\ chunks \in Partitions(input)
    /\ nread = 0
    /\ byte_buffer = <<>>
    /\ buffer = <<>>
    /\ decoded = <<>>
    /\ handed = <<>>
    /\ dpc = "reading"
    /\ RelayIdle
    /\ RetryIdle
    /\ CBIdle
    /\ ChatIdle

NextDecode ==
    \/ DecChunk
    \/ DecEnd

SpecDecode == InitDecode /\ [][NextDecode]_vars

\* the input is the UTF-8 encoding of a text
ValidInput == Decode(input).ok

\* C16: for every text and every cut of its UTF-8 bytes into chunks, the
\* decoded fragments put together are the text, when the loop has ended.
C16_DecodeRoundTrip ==
    (dpc \in {"done", "raised"} /\ ValidInput) => decoded = Decode(input).text

\* what the loop hands over when the whole input arrives as one chunk
OneChunk(m, bs) ==
    LET r == ByteStep(m, <<>>, bs)
        s == SplitLoop(r.str, SepLen(m))
    IN  s.lines \o Remaining(m, s.rest)

\* C17: for every text and every cut of its bytes into chunks, the line loop
\* of the relays hands the interpreter the same lines in the same order as
\* when the whole input arrives in one chunk.
C17_LinesChunkIndependent ==
    (dpc = "done" /\ dmode \in {"production", "simple"} /\ ValidInput)
        => handed = OneChunk(dmode, input)

\* a relay ended after it handed over two lines, one of them holding a
\* two-byte character whose bytes arrived in different chunks
C17_Witness ==
    /\ dpc = "done"
    /\ dmode \in {"production", "simple"}
    /\ ValidInput
    /\ Len(handed) = 2
    /\ \E k \in 1 .. Len(chunks) : chunks[k][Len(chunks[k])] = "C3"
    /\ \E i \in 1 .. 2 : handed[i].line = <<"U+E9">>

\* the retry notifications among the yielded messages
RetryNotes(q) == SelectSeq(q, LAMBDA m : m.event = "retry")

C22_RetryFrameBeforeSleep ==
    /\ [](rpc = "backoff" => Len(RetryNotes(yielded)) = attempt + 1)
    /\ [][RetryBackoff => Len(sse_out') = Len(sse_out) + 1]_vars

\* a frame whose payload starts with `Error: `
IsErrorFrame(f) == Len(f) >= 13 /\ SubSeq(f, 1, 13) = "data: Error: "

\* C23: a relay whose upstream answered a status other than 200 never hands
\* the client a content frame: its frames are Error frames and [DONE] only
\* (forward_to_n8n_stream of main_production.py and main_simple.py).
C23_NoContentOnBadStatus ==
    (status # 200 /\ mode \in {"production", "simple"}) =>
        \A i \in 1 .. Len(out) : out[i] = DoneFrame \/ IsErrorFrame(out[i])

\* C24: the circuit opens only on consecutive failures: whenever the flag
\* goes from closed to open, the last failure_threshold recorded outcomes
\* were failures with no success between them.
C24_OpensOnConsecutiveOnly ==
    [][(~OpenFlag /\ OpenFlag') => consec' >= failure_threshold]_vars

\* the three dictionaries of the breaker
BreakerState == <<failure_counts, last_failure_times, circuit_open>>

retry_after == recovery_timeout

\* C26: when a request is short-circuited by the open circuit, retry_after
\* in the synthetic response is the remaining cool-down: recovery_timeout
\* minus the time elapsed since the last recorded failure.
C26_RetryAfterIsRemaining ==
    [][\A r \in Slots :
          (Dispatch(r, ChatPath) /\ IsCircuitOpen) =>
              retry_after = recovery_timeout - (now - last_failure_times[service_key])]_vars

(***************************************************************************)
(* SpecGuard: CircuitBreakerMiddleware around the chat handler.  call_next *)
(* returns when the handler has returned its response object: for a relay  *)
(* that is the EventSourceResponse, built before the upstream is           *)
(* contacted; the body generator enhanced_sse_stream runs afterwards,      *)
(* while the response is sent.                                             *)
(***************************************************************************)
\* the status codes the chat handler's HTTPExceptions carry
HandlerErrorCodes ==
    {HTTP_400_BAD_REQUEST, HTTP_429_TOO_MANY_REQUESTS, HTTP_500_INTERNAL_SERVER_ERROR}

\* dispatch after call_next: the outcome recorded for a status code
RecordStatus(code) == IF code < 500 THEN RecordSuccess ELSE RecordFailure

\* the handler returned the EventSourceResponse
GuardedStreamStart(r) ==
    /\ req[r] = "inflight"
    /\ RecordStatus(HTTP_200_OK)
    /\ req' = [req EXCEPT ![r] = "streaming"]
    /\ EndTrial(r, "ok")
    /\ UNCHANGED <<now, relayVars, retryVars, chatVars, decVars, shutVars, escVars, tmVars, rlVars, rtVars>>

\* the handler raised an HTTPException before it built the response
GuardedHandlerError(r, code) ==
    /\ req[r] = "inflight"
    /\ RecordStatus(code)
    /\ req' = [req EXCEPT ![r] = "idle"]
    /\ EndTrial(r, IF code < 500 THEN "ok" ELSE "failed")
    /\ UNCHANGED <<now, relayVars, retryVars, chatVars, decVars, shutVars, escVars, tmVars, rlVars, rtVars>>

\* the body generator met the upstream's failure: non-200 status or
\* connection error on every attempt, then the error message and
\* N8NConnectionError, caught by enhanced_sse_stream
GuardedStreamFails(r) ==
    /\ req[r] = "streaming"
    /\ req' = [req EXCEPT ![r] = "stream_failed"]
    /\ UNCHANGED <<failure_counts, last_failure_times, circuit_open, now, trial,
                   trial_result, consec, last_op, relayVars, retryVars,
                   chatVars, decVars, shutVars, escVars, tmVars, rlVars, rtVars>>

\* the body generator relayed the upstream's messages up to `complete`
GuardedStreamCompletes(r) ==
    /\ req[r] = "streaming"
    /\ req' = [req EXCEPT ![r] = "stream_ok"]
    /\ UNCHANGED <<failure_counts, last_failure_times, circuit_open, now, trial,
                   trial_result, consec, last_op, relayVars, retryVars,
                   chatVars, decVars, shutVars, escVars, tmVars, rlVars, rtVars>>

\* the body generator ended and the response is complete
GuardedStreamClosed(r) ==
    /\ req[r] \in {"stream_failed", "stream_ok"}
    /\ req' = [req EXCEPT ![r] = "idle"]
    /\ UNCHANGED <<failure_counts, last_failure_times, circuit_open, now, trial,
                   trial_result, consec, last_op, relayVars, retryVars,
                   chatVars, decVars, shutVars, escVars, tmVars, rlVars, rtVars>>

NextGuard ==
    \/ \E r \in Slots : Dispatch(r, ChatPath)
    \/ \E r \in Slots : GuardedStreamStart(r)
    \/ \E r \in Slots, code \in HandlerErrorCodes : GuardedHandlerError(r, code)
    \/ \E r \in Slots : GuardedStreamFails(r)
    \/ \E r \in Slots : GuardedStreamCompletes(r)
    \/ \E r \in Slots : GuardedStreamClosed(r)
    \/ Tick

SpecGuard == InitCB /\ [][NextGuard]_vars

\* C27: an upstream failure that happens during a relay is recorded by the
\* circuit breaker as a failure of the service key (the counter goes up by
\* one and the failure time is set), so that failure_threshold consecutive
\* failing relays open the circuit.
C27_RelayFailureRecorded ==
    [][\A r \in Slots :
          GuardedStreamFails(r) =>
              /\ Get(failure_counts', service_key, 0)
                     = Get(failure_counts, service_key, 0) + 1
              /\ Get(last_failure_times', service_key, 0 - 1) = now]_vars

\* the event loop runs the background tasks and the handlers, while the
\* upstream decides when a stream goes on or ends: it may keep a relay open
\* for ever without sending a message
SpecChatStall ==
    /\ SpecChat
    /\ WF_vars(Heartbeat)
    /\ WF_vars(Cleanup)
    /\ WF_vars(ChatTick)
    /\ \A r \in Reqs : WF_vars(HandlerFail(r) \/ HandlerRespond(r))

\* C28: the cleanup task removes every connection whose last activity is
\* older than connection_timeout, and a relay that has stopped producing
\* real frames is eventually evicted even while the heartbeat task runs:
\* if from some point on it stays open and passes no message on, then from
\* some point on its connection is out of the registry.
C28_IdleRelayEvicted ==
    /\ [][Cleanup => \A id \in Expired : id \notin active_connections']_vars
    /\ \A r \in Reqs :
           (<>[](handler[r] = "streaming") /\ <>[][~StreamFrame(r)]_vars)
               => <>[](cid[r] \notin active_connections)

\* the requests whose connection has been created and not yet closed
OpenRelays == {r \in Reqs : handler[r] \in {"created", "streaming"}}

\* C29: every relay that has been created and not yet closed has its own
\* entry in the registry: two open relays never share a connection id (also
\* when they start for the same session within the same second), and the
\* entry of an open relay is still there after another relay was closed.
C29_OwnEntryPerRelay ==
    /\ \A r1, r2 \in OpenRelays : r1 # r2 => cid[r1] # cid[r2]
    /\ \A r \in OpenRelays : cid[r] \in active_connections

(***************************************************************************)
(* SpecShutdown: shutdown_event of main_production.py beside the relays    *)
(* that add themselves to and discard themselves from                      *)
(* app.state.active_connections.  The drain loop tests the set, then       *)
(* sleeps one second; other tasks run only during a sleep.                 *)
(***************************************************************************)
\* `for i in range(30)`
drain_waits == 30

MaxStreams == 3

\* the connection ids of the relays
StreamIds == {"s" \o ToString(k) \o "_0" : k \in 1 .. MaxStreams}

relayRest == <<mode, status, body, tail, fpc, err, out, test_left>>

\* forward_to_n8n_stream starts: the id is added to the tracked set
StreamStart(id) ==
    /\ sd_pc \in {"serving", "draining"}
    /\ id \notin tracked
    /\ tracked' = tracked \cup {id}
    /\ UNCHANGED <<relayRest, sd_pc, sd_i, retryVars, cbVars, chatVars, decVars, escVars, tmVars, rlVars, rtVars>>

\* the finally block of forward_to_n8n_stream discards the id
StreamFinish(id) ==
    /\ sd_pc \in {"serving", "draining"}
    /\ id \in tracked
    /\ tracked' = tracked \ {id}
    /\ UNCHANGED <<relayRest, sd_pc, sd_i, retryVars, cbVars, chatVars, decVars, escVars, tmVars, rlVars, rtVars>>

\* shutdown_event is called: with nothing tracked it skips the loop, else it
\* enters the loop, finds the set non-empty and starts the first sleep
ShutdownBegin ==
    /\ sd_pc = "serving"
    /\ IF Cardinality(tracked) > 0
       THEN sd_pc' = "draining" /\ sd_i' = 1
       ELSE sd_pc' = "done" /\ sd_i' = 0
    /\ UNCHANGED <<relayVars, retryVars, cbVars, chatVars, decVars, escVars, tmVars, rlVars, rtVars>>

\* a sleep of the drain loop is over: leave the loop when the range is used
\* up or the set is empty, else sleep one more second
DrainStep ==
    /\ sd_pc = "draining"
    /\ IF sd_i = drain_waits \/ Cardinality(tracked) = 0
       THEN sd_pc' = "done" /\ sd_i' = sd_i
       ELSE sd_pc' = sd_pc /\ sd_i' = sd_i + 1
    /\ UNCHANGED <<relayVars, retryVars, cbVars, chatVars, decVars, escVars, tmVars, rlVars, rtVars>>

InitShutdown ==
    /\ RtIdle
    /\ RlIdle
    /\ TmIdle
    /\ EscIdle
    /\ sd_pc = "serving"
    /\ sd_i = 0
    /\ RelayIdle
    /\ RetryIdle
    /\ CBIdle
    /\ ChatIdle
    /\ DecIdle

NextShutdown ==
    \/ \E id \in StreamIds : StreamStart(id)
    \/ \E id \in StreamIds : StreamFinish(id)
    \/ ShutdownBegin
    \/ DrainStep

SpecShutdown == InitShutdown /\ [][NextShutdown]_vars

ByteChunks == \A k \in 1 .. Len(chunks) : Len(chunks[k]) = 1

\* C31: in the relays, reading the body byte by byte, the carried byte
\* remainder never exceeds 4 bytes and holds nothing but the beginning of a
\* character still to be completed, so that a byte that can never start or
\* continue a character is replaced and the text after it is decoded while
\* the stream is live; when the loop has ended, the decoded text is the
\* input with a placeholder for each bad byte.
C31_BadByteReplacedAndResumed ==
    (dmode \in {"production", "simple"} /\ ByteChunks) =>
        /\ Len(byte_buffer) <= 4
        /\ byte_buffer \in {<<>>, <<"C3">>}
        /\ dpc = "done" => decoded = Utf8Replace(input, 1, <<>>)

\* C32: when the upstream stream ends with a non-empty unterminated last
\* line, the relay yields for it the frames it would have yielded had the
\* line been terminated by a newline, whatever the kind of the line.
C32_TailHandledAsLine ==
    [][(RelayEnd /\ tail # <<>> /\ mode \in {"production", "simple"})
          => out' = out \o HandleLine(mode, tail[1]).frames]_vars

\* C33: an item line whose content is a string, the empty string included,
\* produces exactly one frame, and an item line whose content is null
\* produces none.
C33_OneFramePerNonNullItem ==
    [][(/\ RelayLine
        /\ mode \in {"production", "simple"}
        /\ Head(body).j = "obj"
        /\ Head(body).type = "item"
        /\ Head(body).ck \in {"str", "null"})
          => Len(out') = Len(out) + (IF Head(body).ck = "null" THEN 0 ELSE 1)]_vars

\* C34: an upstream error line makes the relay emit exactly one frame and
\* stop reading: no later upstream line is handled, only the terminal
\* [DONE] follows.
C34_ErrorLineTerminates ==
    [][(/\ RelayLine
        /\ mode \in {"production", "simple"}
        /\ Head(body).j = "obj"
        /\ Head(body).type = "error")
          => /\ Len(out') = Len(out) + 1
             /\ fpc' # "reading"]_vars

\* the frames C35 expects for a non-empty line that is not valid JSON
PlainFrames(l) == IF StartsWithBrace(l.text) THEN 0 ELSE 1

\* C35: a non-empty line that is not valid JSON yields exactly one frame if
\* it does not start with `{` and none if it does, and the relay goes on
\* with the next line; the unterminated last line of the stream included.
C35_PlainTextOrDropped ==
    /\ [][(/\ RelayLine
            /\ mode \in {"production", "simple"}
            /\ Head(body).j = "invalid"
            /\ Head(body).text # <<>>)
              => /\ Len(out') = Len(out) + PlainFrames(Head(body))
                 /\ fpc' = "reading"]_vars
    /\ [][(/\ RelayEnd
            /\ mode \in {"production", "simple"}
            /\ tail # <<>>
            /\ tail[1].j = "invalid"
            /\ tail[1].text # <<>>)
              => Len(out') = Len(out) + PlainFrames(tail[1])]_vars

(***************************************************************************)
(* SpecEscape: the relay escapes a content string for the SSE data field   *)
(* and the client unescapes the payload it receives.  Strings are handled  *)
(* character by character, as str.replace does.                            *)
(***************************************************************************)
MaxChars == 3

\* a letter, a newline, a carriage return, a backslash, and the letters n, r
Chars == {"a", "\n", "\r", "\\", "n", "r"}

RECURSIVE StrsUpTo(_)
StrsUpTo(n) == IF n = 0 THEN {""}
              ELSE LET shorter == StrsUpTo(n - 1)
                   IN  shorter \cup {c \o t : c \in Chars, t \in shorter}

\* str.replace(old, new)
RECURSIVE Replace(_, _, _)
Replace(str, old, new) ==
    IF Len(str) < Len(old) THEN str
    ELSE IF SubSeq(str, 1, Len(old)) = old
    THEN new \o Replace(SubSeq(str, Len(old) + 1, Len(str)), old, new)
    ELSE SubSeq(str, 1, 1) \o Replace(SubSeq(str, 2, Len(str)), old, new)

\* content.replace('\n', '\\n').replace('\r', '\\r')
EscapeStr(str) == Replace(Replace(str, "\n", "\\n"), "\r", "\\r")

\* data.replace('\\n', '\n').replace('\\r', '\r')
UnescapeStr(str) == Replace(Replace(str, "\\n", "\n"), "\\r", "\r")

\* the relay escapes the content and yields the frame
EscSend ==
    /\ epc = "content"
    /\ wire' = EscapeStr(content)
    /\ epc' = "sent"
    /\ UNCHANGED <<content, shown, relayVars, retryVars, cbVars, chatVars, decVars,
                   shutVars, tmVars, rlVars, rtVars>>

\* the client takes the payload of the frame and unescapes it
EscReceive ==
    /\ epc = "sent"
    /\ shown' = UnescapeStr(wire)
    /\ epc' = "received"
    /\ UNCHANGED <<content, wire, relayVars, retryVars, cbVars, chatVars, decVars,
                   shutVars, tmVars, rlVars, rtVars>>

InitEscape ==
    /\ RtIdle
    /\ RlIdle
    /\ TmIdle
    /\ content \in StrsUpTo(MaxChars)
    /\ wire = ""
    /\ shown = ""
    /\ epc = "content"
    /\ RelayIdle
    /\ RetryIdle
    /\ CBIdle
    /\ ChatIdle
    /\ DecIdle
    /\ ShutIdle

NextEscape ==
    \/ EscSend
    \/ EscReceive

SpecEscape == InitEscape /\ [][NextEscape]_vars

\* C36: escaping and unescaping are inverse: for every content string the
\* client's unescape of the server's escape is the content, also when the
\* content holds a backslash followed by n or r.
C36_EscapeRoundTrip ==
    epc = "received" => shown = content

(***************************************************************************)
(* SpecTimeout: RequestTimeoutMiddleware around one chat request.          *)
(* wait_for covers call_next, which returns when the handler has returned  *)
(* its EventSourceResponse; the attempts and backoff sleeps of             *)
(* send_message_with_retry run afterwards, in the response body.           *)
(***************************************************************************)
\* RequestTimeoutMiddleware, timeout_seconds=30
timeout_seconds == 30

tmOthers == <<relayVars, retryVars, cbVars, chatVars, decVars, shutVars, escVars,
              rlVars, rtVars>>

\* the handler returns the EventSourceResponse: wait_for is over and the
\* body generator starts its first attempt
TmHandlerReturns ==
    /\ tm_pc = "handler"
    /\ tm_pc' = "attempt"
    /\ UNCHANGED <<tm_elapsed, tm_attempt, tm_sleep, tmOthers>>

\* wait_for raises TimeoutError: the 408 response
TmHandlerTimeout ==
    /\ tm_pc = "handler"
    /\ tm_elapsed >= timeout_seconds
    /\ tm_pc' = "timed_out"
    /\ UNCHANGED <<tm_elapsed, tm_attempt, tm_sleep, tmOthers>>

\* an attempt fails: backoff, or the error message after the last attempt
TmAttemptFails ==
    /\ tm_pc = "attempt"
    /\ IF tm_attempt < retry_attempts - 1
       THEN tm_pc' = "backoff" /\ tm_sleep' = Delay(tm_attempt)
       ELSE tm_pc' = "ended" /\ tm_sleep' = tm_sleep
    /\ UNCHANGED <<tm_elapsed, tm_attempt, tmOthers>>

\* an attempt relays the upstream's stream up to its end
TmAttemptCompletes ==
    /\ tm_pc = "attempt"
    /\ tm_pc' = "ended"
    /\ UNCHANGED <<tm_elapsed, tm_attempt, tm_sleep, tmOthers>>

\* the backoff sleep is over: the next attempt
TmBackoffOver ==
    /\ tm_pc = "backoff"
    /\ tm_sleep = 0
    /\ tm_attempt' = tm_attempt + 1
    /\ tm_pc' = "attempt"
    /\ UNCHANGED <<tm_elapsed, tm_sleep, tmOthers>>

\* one second passes; the handler cannot outlive its wait_for
TmTick ==
    /\ \/ tm_pc = "handler" /\ tm_elapsed < timeout_seconds
       \/ tm_pc = "attempt" /\ tm_elapsed <= timeout_seconds
       \/ tm_pc = "backoff" /\ tm_sleep > 0 /\ tm_elapsed <= timeout_seconds
    /\ tm_elapsed' = tm_elapsed + 1
    /\ tm_sleep' = IF tm_sleep > 0 THEN tm_sleep - 1 ELSE 0
    /\ UNCHANGED <<tm_pc, tm_attempt, tmOthers>>

InitTimeout ==
    /\ RtIdle
    /\ RlIdle
    /\ tm_pc = "handler"
    /\ tm_elapsed = 0
    /\ tm_attempt = 0
    /\ tm_sleep = 0
    /\ RelayIdle
    /\ RetryIdle
    /\ CBIdle
    /\ ChatIdle
    /\ DecIdle
    /\ ShutIdle
    /\ EscIdle

NextTimeout ==
    \/ TmHandlerReturns
    \/ TmHandlerTimeout
    \/ TmAttemptFails
    \/ TmAttemptCompletes
    \/ TmBackoffOver
    \/ TmTick

SpecTimeout == InitTimeout /\ [][NextTimeout]_vars

\* C37: the lifetime of a relay, attempts and backoff sleeps together, is
\* bounded by the request timeout: no relay is still streaming or retrying
\* after timeout_seconds.
C37_RelayBoundedByTimeout ==
    tm_pc \in {"attempt", "backoff"} => tm_elapsed <= timeout_seconds

(***************************************************************************)
(* SpecLimit: RateLimitMiddleware.dispatch.  Its call_next enters          *)
(* CircuitBreakerMiddleware, which records a failure for every call that   *)
(* raises and raises it again.                                             *)
(***************************************************************************)
MaxLimited == 2

Limited == 1 .. MaxLimited

rlOthers == <<relayVars, retryVars, cbVars, chatVars, decVars, shutVars, escVars,
              tmVars, rtVars>>

\* an exempt path or an OPTIONS request: call_next outside the try block
RlSkip(r) ==
    /\ rl_pc[r] = "new"
    /\ rl_kind[r] \in {"exempt", "options"}
    /\ rl_calls' = [rl_calls EXCEPT ![r] = @ + 1]
    /\ rl_pc' = [rl_pc EXCEPT ![r] = "inner_bare"]
    /\ UNCHANGED <<rl_kind, rl_failures, rlOthers>>

\* the checks of the try block: they pass and call_next is invoked, or they
\* raise RateLimitExceededError (the 429 response), or they raise another
\* exception, for which the except branch invokes call_next
RlCheck(r, result) ==
    /\ rl_pc[r] = "new"
    /\ rl_kind[r] = "api"
    /\ CASE result = "allowed" ->
                /\ rl_calls' = [rl_calls EXCEPT ![r] = @ + 1]
                /\ rl_pc' = [rl_pc EXCEPT ![r] = "inner_try"]
         [] result = "denied" ->
                /\ rl_calls' = rl_calls
                /\ rl_pc' = [rl_pc EXCEPT ![r] = "limited"]
         [] result = "raised" ->
                /\ rl_calls' = [rl_calls EXCEPT ![r] = @ + 1]
                /\ rl_pc' = [rl_pc EXCEPT ![r] = "inner_bare"]
    /\ UNCHANGED <<rl_kind, rl_failures, rlOthers>>

\* call_next returns a response
RlInnerReturns(r) ==
    /\ rl_pc[r] \in {"inner_try", "inner_bare"}
    /\ rl_pc' = [rl_pc EXCEPT ![r] = "responded"]
    /\ UNCHANGED <<rl_kind, rl_calls, rl_failures, rlOthers>>

\* call_next raises an exception: the circuit breaker has recorded a
\* failure; inside the try block `except Exception` invokes call_next
\* again, outside it the exception leaves dispatch
RlInnerRaises(r) ==
    /\ rl_pc[r] \in {"inner_try", "inner_bare"}
    /\ rl_failures' = [rl_failures EXCEPT ![r] = @ + 1]
    /\ IF rl_pc[r] = "inner_try"
       THEN /\ rl_calls' = [rl_calls EXCEPT ![r] = @ + 1]
            /\ rl_pc' = [rl_pc EXCEPT ![r] = "inner_bare"]
       ELSE /\ rl_calls' = rl_calls
            /\ rl_pc' = [rl_pc EXCEPT ![r] = "raised"]
    /\ UNCHANGED <<rl_kind, rlOthers>>

InitLimit ==
    /\ RtIdle
    /\ rl_kind \in [Limited -> {"exempt", "options", "api"}]
    /\ rl_pc = [r \in Limited |-> "new"]
    /\ rl_calls = [r \in Limited |-> 0]
    /\ rl_failures = [r \in Limited |-> 0]
    /\ RelayIdle
    /\ RetryIdle
    /\ CBIdle
    /\ ChatIdle
    /\ DecIdle
    /\ ShutIdle
    /\ EscIdle
    /\ TmIdle

NextLimit ==
    \/ \E r \in Limited : RlSkip(r)
    \/ \E r \in Limited, result \in {"allowed", "denied", "raised"} : RlCheck(r, result)
    \/ \E r \in Limited : RlInnerReturns(r)
    \/ \E r \in Limited : RlInnerRaises(r)

SpecLimit == InitLimit /\ [][NextLimit]_vars

\* C38: dispatch invokes call_next at most once per request, also when the
\* handler raises, so that one failing request is recorded by the inner
\* circuit breaker as one failure.
C38_CallNextAtMostOnce ==
    \A r \in DOMAIN rl_calls : rl_calls[r] <= 1 /\ rl_failures[r] <= 1

(***************************************************************************)
(* SpecRate: RateLimiter.check_rate_limit on one key.  The key holds a     *)
(* Redis sorted set; the pipeline runs as one transaction.                 *)
(***************************************************************************)
limit == 2
window_seconds == 2
MaxClock == 4
MaxCalls == 4

Identifiers == {"request", "ip_1"}

rtOthers == <<relayVars, retryVars, cbVars, chatVars, decVars, shutVars, escVars,
              tmVars, rlVars>>

\* f"{current_time}:{identifier}"
Member(current_time, identifier) == ToString(current_time) \o ":" \o identifier

\* ZREMRANGEBYSCORE key lo hi
ZRemRangeByScore(z, lo, hi) == {e \in z : ~(lo <= e.score /\ e.score <= hi)}

\* ZADD key score member: a member that is present keeps one entry
ZAdd(z, member, score) ==
    {e \in z : e.member # member} \cup {[member |-> member, score |-> score]}

\* ZREM key member
ZRem(z, member) == {e \in z : e.member # member}

\* the calls counted in the window that ends at second t
InWindow(times, t) ==
    {k \in 1 .. Len(times) : t - window_seconds < times[k] /\ times[k] <= t}

check_rate_limit(identifier) ==
    LET current_time  == rt_now
        window_start  == current_time - window_seconds
        trimmed       == ZRemRangeByScore(rt_zset, 0, window_start)
        current_count == Cardinality(trimmed) + 1
        added         == ZAdd(trimmed, Member(current_time, identifier), current_time)
    IN  /\ Len(rt_allowed) < MaxCalls
        /\ IF current_count > limit
           THEN /\ rt_zset' = ZRem(added, Member(current_time, identifier))
                /\ rt_result' = "denied"
                /\ rt_allowed' = rt_allowed
           ELSE /\ rt_zset' = added
                /\ rt_result' = "allowed"
                /\ rt_allowed' = Append(rt_allowed, current_time)
        /\ UNCHANGED <<rt_now, rtOthers>>

RtTick ==
    /\ rt_now < MaxClock
    /\ rt_now' = rt_now + 1
    /\ rt_result' = "none"
    /\ UNCHANGED <<rt_zset, rt_allowed, rtOthers>>

InitRate ==
    /\ rt_now = 0
    /\ rt_zset = {}
    /\ rt_allowed = <<>>
    /\ rt_result = "none"
    /\ RelayIdle
    /\ RetryIdle
    /\ CBIdle
    /\ ChatIdle
    /\ DecIdle
    /\ ShutIdle
    /\ EscIdle
    /\ TmIdle
    /\ RlIdle

NextRate ==
    \/ \E identifier \in Identifiers : check_rate_limit(identifier)
    \/ RtTick

SpecRate == InitRate /\ [][NextRate]_vars

\* C39: at most `limit` calls are allowed for the key within any window of
\* window_seconds, also when calls with the same identifier arrive within
\* one clock second, and a denied call leaves the counted entries (those
\* of the current window) as they were before the call.
C39_AtMostLimitPerWindow ==
    /\ [](\A t \in 0 .. MaxClock :
              Cardinality(InWindow(rt_allowed, t)) <= limit)
    /\ [][(\E identifier \in Identifiers : check_rate_limit(identifier))
             /\ rt_result' = "denied"
               => rt_zset' = ZRemRangeByScore(rt_zset, 0, rt_now - window_seconds)]_vars

\* C40: in every reachable state of SSEConnectionManager the keys of
\* active_connections and of connection_queues are the same set, and
\* close_connection of an id that is absent changes nothing.
C40_SameKeysAndIdempotentClose ==
    /\ [](active_connections = DOMAIN connection_queues)
    /\ [][\A r \in Reqs :
             ((StreamEnd(r) \/ StreamDisconnect(r)) /\ cid[r] \notin active_connections)
                 => UNCHANGED <<active_connections, connection_queues, inactive>>]_vars

\* two relays had the same id, both have ended: the second close found the
\* id absent, while another connection is still registered
C40_Witness ==
    \E r1, r2 \in Reqs :
        /\ r1 # r2
        /\ cid[r1] # "" /\ cid[r1] = cid[r2]
        /\ handler[r1] \in {"completed", "errored", "cancelled"}
        /\ handler[r2] \in {"completed", "errored", "cancelled"}
        /\ active_connections # {}

====
